---- MODULE Spec2Model ----
(***************************************************************************)
(* Civ7ModManager: archive extraction, metadata parsing, the install       *)
(* pipelines and the conflict reports, modelled from the Python sources.   *)
(*                                                                         *)
(*   Spec        get_mods_page.py: download + install, one at a time.      *)
(*   SpecConc    get_mods_page.py: downloads started while others run.     *)
(*   SpecImport  get_mods_page.py: install_local_mod on a batch.           *)
(*   SpecLegacy  main.py + archive.py: install_mod on the storage root.    *)
(*   SpecExtract the two archive front ends as functions of their input.   *)
(*   SpecParse   the two metadata parsers as functions of a document.      *)
(*   SpecMods    main.py: the mod list, enabling, disabling, conflicts.    *)
(*   SpecFolder  main.py: install_mod_folder on a folder of archives.      *)
(*   SpecPage    installed_page.py on the installed_mods table.            *)
(*   SpecRefresh get_mods_page.py: refresh_table and its guard.            *)
(*   SpecDeploy  installed_page.py: deploy_mods to the game directory.    *)
(***************************************************************************)
EXTENDS Integers, Sequences, FiniteSets, TLC

VARIABLES
    storage,    \* storage root: directory name -> directory content or NoDir
    db,         \* installed_mods table: mod_id -> row or NoRow
    temp,       \* shared temp path (paths.temp_path): set of entries
    tasks,      \* _download_online_mod coroutines in flight
    imp,        \* install_local_mod: the running batch
    last,       \* the outcome of the last completed operation
    pin,        \* function-level specifications: the input
    pout,       \* function-level specifications: the result
    aff,        \* affected_files table: mod_id -> set of <<file_name, action>>
    red,        \* installed page: the rows drawn with the conflict colour
    mods,       \* main.py self.mods: folder name -> ModInfo or NoMod
    fold,       \* main.py install_mod_folder: the running batch
    rt,         \* get_mods_page.py refresh_table: guard, pages, table rows
    game,       \* the game's mods directory: name -> content or NoDir
    profile     \* main.py: the profile file save_profile writes

vars ==
    <<storage, db, temp, tasks, imp, last, pin, pout, aff, red, mods, fold, rt,
      game, profile>>

(***************************************************************************)
(* Metadata documents (.modinfo XML), abstracted to what the parsers read. *)
(***************************************************************************)
NoAttr == "<no attribute>"
NoElem == "<no element>"
\* Python's None, where the other values are records / where they are strings
None == [ none |-> TRUE ]
NoneStr == "<None>"

ModIds == {"m1", "m2"}
BASE_GAME_MODS ==
    {"age-antiquity", "age-exploration", "age-modern", "base-standard", "core",
     "telemetry"}
DLC_MODS ==
    {"ashoka-himiko-alt", "ashoka-himiko-alt-shell", "boot-shell",
     "friedrich-xerxes-alt", "friedrich-xerxes-alt-shell", "napoleon",
     "napoleon-alt", "napoleon-alt-shell", "napoleon-shell", "shawnee-tecumseh",
     "shawnee-tecumseh-shell"}
FILEACTION == {"update_db", "update_text", "ui_scripts", "import_files"}
Items == {"f1"}

\* A document: whether it holds a Mod element, the root's id and version
\* attributes, the Properties block and its children, the ids of the Mod
\* entries of the Dependencies block and the element that block sits in, and
\* the ActionGroup/Actions/<kind>/Item texts.
DocSpace ==
    [ mod     : BOOLEAN,
      id      : {NoAttr, ""} \cup ModIds,
      version : {NoAttr, "1.0"},
      props   : BOOLEAN,
      name    : {NoElem, "Foo", "LOC_FOO"},
      authors : {NoElem, "au"},
      saves   : {NoElem, "0", "1"},
      deps    : {{}, {"core", "napoleon", "m2"}},
      depsAt  : {"Mod", "Properties"},
      files   : [FILEACTION -> SUBSET Items] ]

startswith_LOC(name) == name = "LOC_FOO"

\* _get_localized_name (modinfo_parser.py): the row's Tag attribute (a str) is
\* compared with name_tag, the Name element itself (a bs4 Tag), which is never
\* equal, so no row matches and the function returns None.
get_localized_name(doc) == NoneStr

\* A parser that takes the root's id as it comes, present or not.
parse_modinfo_no_id_check(doc) ==
    IF ~doc.mod \/ ~doc.props \/ doc.name = NoElem THEN None
    ELSE [ mod_id |-> doc.id, display_name |-> doc.name, provider |-> "local",
           affects_saves |-> NoneStr, version |-> "N/A", authors |-> "N/A",
           dependencies |-> {}, affected_files |-> doc.files ]

\* parse_modinfo (modinfo_parser.py): None on a ParseError, else the ModInfo.
parse_modinfo(doc) ==
    IF ~doc.mod THEN None                       \* "No Mod element found"
    ELSE IF doc.id = NoAttr THEN None           \* "Mod ID not found"
    ELSE IF ~doc.props THEN None                \* "No Properties element found"
    ELSE IF doc.name = NoElem THEN None         \* "No Name element found"
    ELSE
      LET name0 == doc.name
          name1 == IF startswith_LOC(name0) /\ get_localized_name(doc) # NoneStr
                      THEN get_localized_name(doc) ELSE name0
          name  == IF startswith_LOC(name1) THEN doc.id ELSE name1
          \* Dependencies is looked up inside the Properties element
          depElm == IF doc.depsAt = "Properties" THEN doc.deps ELSE {}
      IN [ mod_id         |-> doc.id,
           display_name   |-> name,
           provider       |-> "local",
           affects_saves  |-> IF doc.saves = NoElem THEN NoneStr
                              ELSE IF doc.saves = "0" THEN "False" ELSE "True",
           version        |-> IF doc.version = NoAttr THEN "N/A" ELSE doc.version,
           authors        |-> IF doc.authors = NoElem THEN "N/A" ELSE doc.authors,
           dependencies   |-> {d \in depElm :
                                 d \notin BASE_GAME_MODS /\ d \notin DLC_MODS},
           affected_files |-> doc.files ]

BrokenId == "ModInfo File Broken"

\* ModInfo.metadata as __init__ leaves it, with what the except clause of
\* _load_metadata sets.
BrokenMetadata(folder) ==
    [ id |-> BrokenId, version |-> "", display_name |-> folder, authors |-> "",
      affects_saves |-> FALSE, dependencies |-> {}, affected_files |-> {} ]

\* A loader whose affected_files are the items of all four actions.
load_metadata_all_buckets(hasFile, doc, folder) ==
    IF ~hasFile THEN BrokenMetadata(folder)
    ELSE IF doc.id \in {NoAttr, ""} \/ ~doc.props \/ doc.name = NoElem
            \/ doc.saves = NoElem
      THEN BrokenMetadata(folder)
    ELSE
      [ id             |-> doc.id,
        version        |-> IF doc.version = NoAttr THEN "" ELSE doc.version,
        display_name   |-> folder,
        authors        |-> IF doc.authors = NoElem THEN "" ELSE doc.authors,
        affects_saves  |-> FALSE,
        dependencies   |-> doc.deps,
        affected_files |-> UNION { doc.files[k] : k \in FILEACTION } ]

\* ModInfo._load_metadata (modinfo.py) on a mod folder: hasFile says whether
\* the folder itself holds a *.modinfo file; doc is that file.
load_metadata(hasFile, doc, folder) ==
    IF ~hasFile THEN BrokenMetadata(folder)          \* FileNotFoundError
    ELSE IF doc.id \in {NoAttr, ""} THEN BrokenMetadata(folder)
    ELSE IF ~doc.props THEN BrokenMetadata(folder)
    ELSE IF doc.name = NoElem THEN BrokenMetadata(folder)
    ELSE IF doc.saves = NoElem THEN BrokenMetadata(folder)
    ELSE IF \A k \in FILEACTION : doc.files[k] = {} THEN BrokenMetadata(folder)
    ELSE
      [ id             |-> doc.id,
        version        |-> IF doc.version = NoAttr THEN "" ELSE doc.version,
        \* direct_name[0:4] == 'LOC_' slices an Element: never true, so the
        \* name stays the folder name
        display_name   |-> folder,
        authors        |-> IF doc.authors = NoElem THEN "" ELSE doc.authors,
        \* affects_saves == '1' compares an Element with a str
        affects_saves  |-> FALSE,
        dependencies   |-> doc.deps,
        affected_files |-> doc.files["ui_scripts"] \cup doc.files["import_files"] ]

(***************************************************************************)
(* Files and directories.  A path is a sequence of names; a directory's    *)
(* content is the set of the relative paths of its files, the document its *)
(* .modinfo file holds and the version tag of its payload files.           *)
(***************************************************************************)
NoDir == [ nodir |-> TRUE ]
NoDoc == [ nodoc |-> TRUE ]
Stems == {"a", "b"}                     \* archive file names without suffix
ModinfoNames == {"x.modinfo", "y.modinfo"}
MaxVer == 2

IsModinfo(name) == name \in ModinfoNames
\* Path(...).stem of a .modinfo file name
ModinfoStem(name) == IF name = "x.modinfo" THEN "x" ELSE "y"
\* "_temp_" + stem (archive.py line 53)
ScratchName(stem) == IF stem = "a" THEN "_temp_a" ELSE "_temp_b"
DirNames == Stems \cup {"x", "y"} \cup { ScratchName(s) : s \in Stems }

\* The files of an archive, by the place of its metadata file.
Tree(layout, mfile) ==
    CASE layout = "root"   -> { <<mfile>>, <<"ui", "script.js">>,
                                <<"readme.txt">> }
      [] layout = "sub"    -> { <<"Mod", mfile>>, <<"Mod", "ui", "script.js">>,
                                <<"readme.txt">> }
      [] layout = "nested" -> { <<"Pack", "Mod", mfile>>,
                                <<"Pack", "Mod", "ui", "script.js">>,
                                <<"Pack", "notes.txt">>, <<"readme.txt">> }
      [] OTHER             -> { <<"readme.txt">> }

\* extractall: the whole archive under the extraction directory
Extracted(a) ==
    [ files |-> Tree(a.layout, a.mfile),
      doc   |-> IF a.layout = "none" THEN NoDoc ELSE a.doc,
      ver   |-> a.ver ]

IsPrefix(pre, p) == Len(pre) < Len(p) /\ SubSeq(p, 1, Len(pre)) = pre

\* The directory at relative path `pre` of content c, as a content of its own
\* (what shutil.move(c/pre, dst) puts at dst).
Subtree(c, pre) ==
    LET fs == { SubSeq(p, Len(pre) + 1, Len(p)) :
                    p \in { q \in c.files : IsPrefix(pre, q) } }
    IN [ files |-> fs,
         doc   |-> IF \E p \in fs : IsModinfo(p[Len(p)]) THEN c.doc ELSE NoDoc,
         ver   |-> c.ver ]

\* rglob("*.modinfo"): the matching paths.  The archives of the model hold at
\* most one metadata file, so "the first match" is the match.
rglob_modinfo(c) == { p \in c.files : IsModinfo(p[Len(p)]) }
FirstMatch(c) == CHOOSE p \in rglob_modinfo(c) : TRUE
Parent(p) == SubSeq(p, 1, Len(p) - 1)

\* What an interrupted copy or delete leaves of a directory: the directory,
\* without its files.
Partial(c) == [ files |-> {}, doc |-> NoDoc, ver |-> c.ver ]
IsPartial(c) == c # NoDir /\ c.files = {}

(***************************************************************************)
(* The archives the operations are given.                                  *)
(***************************************************************************)
GoodDoc(id) ==
    [ mod |-> TRUE, id |-> id, version |-> "1.0", props |-> TRUE, name |-> "Foo",
      authors |-> "au", saves |-> "1", deps |-> {}, depsAt |-> "Mod",
      files |-> [ k \in FILEACTION |-> IF k = "ui_scripts" THEN {"f1"} ELSE {} ] ]
NoIdDoc == [ GoodDoc("m1") EXCEPT !.id = NoAttr ]

Archive(stem, ext, layout, mfile, doc, ver) ==
    [ stem |-> stem, ext |-> ext, layout |-> layout, mfile |-> mfile,
      doc |-> doc, ver |-> ver ]

\* At most one I/O fault is injected per operation.
Faults ==
    { "none",
      "extract_oserror",  \* the extractor raises an OSError (unrar missing, disk)
      "extract_error",    \* it raises BadZipFile / ArchiveError / py7zr's error
      "rmtree",           \* shutil.rmtree(target) raises, nothing deleted
      "rmtree_partial",   \* shutil.rmtree(target) raises midway
      "move",             \* shutil.move / rename raises, nothing moved
      "move_partial",     \* shutil.move falls back to copying and raises midway
      "rmshell",          \* archive.py line 130 raises
      "cleanup" }         \* removing the operation's temporary directory raises

\* The outcome of the last completed operation.
NoOp ==
    [ op |-> "none", a |-> None, res |-> "-", fault |-> "none", reply |-> "-",
      raised |-> FALSE, n |-> 0, tick |-> FALSE ]
Outcome(op, a, res, fault, reply, raised, n) ==
    [ op |-> op, a |-> a, res |-> res, fault |-> fault, reply |-> reply,
      raised |-> raised, n |-> n, tick |-> ~last.tick ]

(***************************************************************************)
(* utilities/archive.py                                                    *)
(***************************************************************************)
extractors == {".zip", ".7z", ".rar", ".r00"}
Suffixes == extractors \cup {".ZIP", ".tar", ""}

\* extract(file_path, target_path): the outcome and whether the call created
\* target_path.
\*   "not_found"        ArchiveResult without a path (line 78)
\*   "FileExistsError"  os.mkdir raises: target_path exists (line 79)
\*   "unsupported"      unsuported_file's ArchiveResult, without a path
\*   "ok"               ArchiveResult with path = target_path
\*   "OSError", "error" the extractor raised
extract(fileExists, targetExists, suffix, fault) ==
    IF ~fileExists THEN [ kind |-> "not_found", made |-> FALSE ]
    ELSE IF targetExists THEN [ kind |-> "FileExistsError", made |-> FALSE ]
    ELSE IF suffix \notin extractors THEN [ kind |-> "unsupported", made |-> TRUE ]
    ELSE IF fault = "extract_oserror" THEN [ kind |-> "OSError", made |-> TRUE ]
    ELSE IF fault = "extract_error" THEN [ kind |-> "error", made |-> TRUE ]
    ELSE [ kind |-> "ok", made |-> TRUE ]

(***************************************************************************)
(* archive.py: ArchiveHandler                                              *)
(***************************************************************************)
\* str.lower() on a suffix
Lower(suffix) == IF suffix = ".ZIP" THEN ".zip" ELSE suffix

\* get_archive_type: the type, or "ValueError"
get_archive_type(suffix) ==
    LET ext == Lower(suffix)
    IN  IF ext = ".zip" THEN "zip"
        ELSE IF ext = ".7z" THEN "7z"
        ELSE IF ext \in {".rar", ".r00"} THEN "rar"
        ELSE "ValueError"

\* extract_mod_folder(file_path, target_path) for archive a on the storage
\* root st: the root when the call returns or raises, and the outcome ("ok":
\* mod_name returned; "ValueError": raised before the scratch directory was
\* made; "error": raised after it, through the except clause).
extract_mod_folder(a, st, fault) ==
    LET temp_extract == ScratchName(a.stem)
        c == Extracted(a)
        \* lines 134-138, then the state of the storage root
        Raise(s) == [ st |-> [ s EXCEPT ![temp_extract] = NoDir ], res |-> "error" ]
    IN  IF get_archive_type(a.ext) = "ValueError"
          THEN [ st |-> st, res |-> "ValueError" ]
        ELSE IF fault \in {"extract_oserror", "extract_error"} THEN Raise(st)
        ELSE IF rglob_modinfo(c) = {} THEN Raise(st)
        ELSE
          LET modinfo_path == FirstMatch(c)
              mod_name == ModinfoStem(modinfo_path[Len(modinfo_path)])
              atRoot   == Parent(modinfo_path) = <<>>
              \* lines 120-122: up to the child of temp_extract
              mod_root == IF atRoot THEN <<>> ELSE <<modinfo_path[1]>>
              moved    == Subtree(c, mod_root)
              old      == st[mod_name]
          IN  IF old # NoDir /\ fault = "rmtree" THEN Raise(st)
              ELSE IF old # NoDir /\ fault = "rmtree_partial"
                THEN Raise([ st EXCEPT ![mod_name] = Partial(old) ])
              ELSE IF fault = "move"
                THEN Raise([ st EXCEPT ![mod_name] = NoDir ])
              \* Path.rename (line 117) moves or fails as a whole;
              \* shutil.move (line 127) copies when the rename is refused
              ELSE IF fault = "move_partial" /\ ~atRoot
                THEN Raise([ st EXCEPT ![mod_name] = Partial(moved) ])
              ELSE IF fault = "rmshell" /\ ~atRoot
                THEN Raise([ st EXCEPT ![mod_name] = moved ])
              ELSE [ st  |-> [ st EXCEPT ![mod_name] = moved,
                                         ![temp_extract] = NoDir ],
                     res |-> "ok" ]

(***************************************************************************)
(* app/utilities/database.py                                               *)
(***************************************************************************)
NoRow == [ norow |-> TRUE ]

\* An insert that keeps the enabled flag of a row it replaces.
add_installed_mod_keep_enabled(d, mod_id, file_path) ==
    [ d EXCEPT ![mod_id] =
        [ file_path |-> file_path,
          enabled |-> IF d[mod_id] = NoRow THEN FALSE ELSE d[mod_id].enabled ] ]

\* add_installed_mod: INSERT or REPLACE of the row of mod_info.mod_id; the
\* statement names no `enabled` column, so the new row takes its default.
add_installed_mod(d, mod_id, file_path) ==
    [ d EXCEPT ![mod_id] = [ file_path |-> file_path, enabled |-> FALSE ] ]

(***************************************************************************)
(* app/ui/get_mods_page.py: the online install                             *)
(***************************************************************************)
\* An install that moves whatever was extracted, metadata file or not.
install_whole_archive(a, st, d, fileExists, dirExists, fault) ==
    [ st |-> [ st EXCEPT ![a.stem] = Extracted(a) ], db |-> d,
      res |-> "installed", made |-> FALSE ]

\* _install_mod_from_file(file_name) for the downloaded archive a, with the
\* storage root st and the table d.  fileExists: temp_path/file_name exists;
\* dirExists: temp_path/<name before the first dot> exists.
\*   res   "installed": metadata returned; "RuntimeError": raised at line 369;
\*         "raise": another exception left the function
\*   made  the call leaves an extraction directory in temp_path
install_mod_from_file(a, st, d, fileExists, dirExists, fault) ==
    LET target_path == a.stem
        ex == extract(fileExists, dirExists, a.ext, fault)
        c  == Extracted(a)
        Fail(res, made) ==
            [ st |-> st, db |-> d, res |-> res, made |-> made ]
    IN  IF ex.kind = "error" THEN Fail("raise", TRUE)
        ELSE IF ex.kind # "ok" THEN Fail("RuntimeError", ex.made)
        ELSE IF rglob_modinfo(c) = {} THEN Fail("RuntimeError", TRUE)
        ELSE
          LET mod_info == FirstMatch(c)
              mod_root == Parent(mod_info)
              metadata == parse_modinfo(c.doc)
          IN  IF metadata = None THEN Fail("RuntimeError", TRUE)
              ELSE
                LET d1 == add_installed_mod(d, metadata.mod_id, target_path)
                IN  IF st[target_path] # NoDir /\ fault = "rmtree"
                      THEN [ st |-> st, db |-> d1, res |-> "RuntimeError",
                             made |-> TRUE ]
                    ELSE IF fault = "move"
                      THEN [ st |-> [ st EXCEPT ![target_path] = NoDir ],
                             db |-> d1, res |-> "RuntimeError", made |-> TRUE ]
                    ELSE [ st |-> [ st EXCEPT ![target_path] =
                                        Subtree(c, mod_root) ],
                           db |-> d1, res |-> "installed",
                           \* a metadata file at the archive root: the
                           \* extraction directory itself was moved
                           made |-> mod_root # <<>> ]

\* Entries of the shared temp path: a downloaded file, an extraction directory.
File(stem) == <<"file", stem>>
Dir(stem) == <<"dir", stem>>
MaxTasks == 2
Tasks == 1..MaxTasks
Idle == [ pc |-> "idle", stem |-> "-" ]

\* The files other coroutines hold open for writing (providers.py line 204).
OpenFiles(t) ==
    { File(tasks[u].stem) :
          u \in { v \in Tasks \ {t} : tasks[v].pc = "receiving" } }

\* The finally clause of _download_online_mod (lines 317-323) on the entries
\* of temp_path, in the order listdir gives them: unlinking a file another
\* coroutine holds open raises (the platform is Windows), and so does the
\* injected fault on the first entry; the entries not reached stay (rest:
\* which of the deletable ones).
Cleanup(entries, open, fault, rest) ==
    IF entries \cap open # {}
      THEN [ temp |-> (entries \cap open) \cup rest, raised |-> TRUE ]
    ELSE IF fault = "cleanup" /\ entries # {}
      THEN [ temp |-> entries, raised |-> TRUE ]
    ELSE [ temp |-> {}, raised |-> FALSE ]

\* The entries the loop may not have reached when it raises.
Unreached(entries, open) ==
    IF entries \cap open # {} THEN SUBSET (entries \ open) ELSE { {} }

ImpIdle ==
    [ pc |-> "idle", total |-> 0, idx |-> 0, failed |-> 0, skipped |-> 0,
      yes_to_all |-> FALSE, no_to_all |-> FALSE ]

\* main.py: no ModInfo under a folder name of self.mods
NoMod == [ nomod |-> TRUE ]

\* main.py install_mod_folder: no batch running
FoldIdle ==
    [ pc |-> "idle", total |-> 0, idx |-> 0, ok |-> 0, failed |-> 0, done |-> {} ]

\* get_mods_page.py __init__ (lines 42-48): the provider is set, one page is
\* assumed, nothing is loading, the table is empty.
RtIdle ==
    [ is_loading |-> FALSE, provider |-> "CivFanatics", pc |-> "idle",
      current_page |-> 1, total_pages |-> 1, rows |-> 0 ]

\* The game's mods directory as the manager finds it: something is in it.
GameNames == ModIds \cup {"old"}
GameInit ==
    [ n \in GameNames |->
        IF n = "old" THEN [ files |-> { <<"old.txt">> }, doc |-> NoDoc, ver |-> 1 ]
        ELSE NoDir ]

\* main.py: no profile file was written yet
NoProfile == [ saved |-> FALSE, data |-> {} ]

\* A click on a row's Download button starts _download_online_mod, which runs
\* to its first await (download_mod, session.get).
DownloadClick(t) ==
    /\ tasks[t].pc = "idle"
    /\ imp.pc = "idle"
    /\ tasks' = [ tasks EXCEPT ![t] = [ pc |-> "requesting", stem |-> "-" ] ]
    /\ UNCHANGED <<storage, db, temp, imp, last, pin, pout, aff, red, mods, fold,
                 rt, game, profile>>

\* The response arrives with a file name: the file is opened in temp_path and
\* the coroutine awaits the content.
DownloadHeaders(t, stem) ==
    /\ tasks[t].pc = "requesting"
    /\ tasks' = [ tasks EXCEPT ![t] = [ pc |-> "receiving", stem |-> stem ] ]
    /\ temp' = temp \cup { File(stem) }
    /\ UNCHANGED <<storage, db, imp, last, pin, pout, aff, red, mods, fold,
                 rt, game, profile>>

\* download_mod returns None (redirect, status, headers, or an exception while
\* reading): RuntimeError("External download required"), the error dialog,
\* then the finally clause.
DownloadFailed(t, fault, rest) ==
    /\ tasks[t].pc \in {"requesting", "receiving"}
    /\ rest \in Unreached(temp, OpenFiles(t))
    /\ LET cl == Cleanup(temp, OpenFiles(t), fault, rest)
       IN  /\ temp' = cl.temp
           /\ last' = Outcome("download", None, "RuntimeError", fault, "-",
                              cl.raised, 0)
    /\ tasks' = [ tasks EXCEPT ![t] = Idle ]
    /\ UNCHANGED <<storage, db, imp, pin, pout, aff, red, mods, fold,
                 rt, game, profile>>

\* download_mod returns the file name: _install_mod_from_file, the status or
\* error message, then the finally clause.
DownloadFinish(t, a, fault, rest) ==
    /\ tasks[t].pc = "receiving"
    /\ a.stem = tasks[t].stem
    /\ LET r == install_mod_from_file(a, storage, db, File(a.stem) \in temp,
                                      Dir(a.stem) \in temp, fault)
           entries == temp \cup (IF r.made THEN { Dir(a.stem) } ELSE {})
           cl == Cleanup(entries, OpenFiles(t), fault, rest)
       IN  /\ rest \in Unreached(entries, OpenFiles(t))
           /\ storage' = r.st
           /\ db' = r.db
           /\ temp' = cl.temp
           /\ last' = Outcome("download", a, r.res, fault, "-", cl.raised, 0)
    /\ tasks' = [ tasks EXCEPT ![t] = Idle ]
    /\ UNCHANGED <<imp, pin, pout, aff, red, mods, fold,
                 rt, game, profile>>

\* What a download may deliver: per file name, mod m1 with its metadata file
\* in a subfolder (in every version) and at the archive root, an archive
\* without a metadata file, and a file of an unsupported format.
DownloadArchives ==
    { Archive(s, ".zip", "sub", "x.modinfo", GoodDoc("m1"), v) :
          s \in Stems, v \in 1..MaxVer }
    \cup { Archive(s, ".zip", "root", "x.modinfo", GoodDoc("m1"), 1) : s \in Stems }
    \cup { Archive(s, ".zip", "none", "x.modinfo", NoDoc, 1) : s \in Stems }
    \cup { Archive(s, ".tar", "sub", "x.modinfo", GoodDoc("m1"), 1) : s \in Stems }
DownloadFaults == {"none", "extract_error", "rmtree", "move", "cleanup"}
ConcArchives ==
    { a \in DownloadArchives : a.ext = ".zip" /\ a.layout = "sub" /\ a.ver = 1 }

Init ==
    /\ storage = [ n \in DirNames |-> NoDir ]
    /\ db = [ m \in ModIds |-> NoRow ]
    /\ temp = {}
    /\ tasks = [ t \in Tasks |-> Idle ]
    /\ imp = ImpIdle
    /\ last = NoOp
    /\ pin = None
    /\ pout = None
    /\ aff = [ m \in ModIds |-> {} ]
    /\ red = {}
    /\ mods = [ n \in DirNames |-> NoMod ]
    /\ fold = FoldIdle
    /\ rt = RtIdle
    /\ game = GameInit
    /\ profile = NoProfile

\* One download at a time.
Next ==
    \/ DownloadClick(1)
    \/ \E s \in Stems : DownloadHeaders(1, s)
    \/ \E f \in {"none", "cleanup"} : DownloadFailed(1, f, {})
    \/ \E a \in DownloadArchives, f \in DownloadFaults :
           DownloadFinish(1, a, f, {})

Spec == Init /\ [][Next]_vars

\* Downloads started while others are in flight; no I/O fault.
NextConc ==
    \/ \E t \in Tasks : DownloadClick(t)
    \/ \E t \in Tasks, s \in Stems : DownloadHeaders(t, s)
    \/ \E t \in Tasks :
         \E rest \in Unreached(temp, OpenFiles(t)) : DownloadFailed(t, "none", rest)
    \/ \E t \in Tasks, a \in ConcArchives :
         \E rest \in Unreached(temp \cup { Dir(a.stem) }, OpenFiles(t)) :
           DownloadFinish(t, a, "none", rest)

SpecConc == Init /\ [][NextConc]_vars

(***************************************************************************)
(* app/ui/get_mods_page.py: install_local_mod                              *)
(***************************************************************************)
Replies == {"Yes", "No", "YesToAll", "NoToAll"}

\* target_path.exists() and not yes_to_all, and not no_to_all: the overwrite
\* question is put (lines 398-412)
Asked(a, st, yes_to_all, no_to_all) ==
    st[a.stem] # NoDir /\ ~yes_to_all /\ ~no_to_all

\* A loop body that clears the target before the question is answered.
install_local_archive_overwrite(a, st, d, yes_to_all, no_to_all, reply, fault) ==
    [ st |-> [ st EXCEPT ![a.stem] = NoDir ], db |-> d,
      res |-> IF reply \in {"No", "NoToAll"} \/ no_to_all THEN "skipped" ELSE "failed",
      yes_to_all |-> yes_to_all, no_to_all |-> no_to_all \/ reply = "NoToAll" ]

\* The body of the with statement (lines 393-459) for archive a, an existing
\* file: the storage root, the table, the two flags and how the body ends
\* ("skipped", "failed", "installed": the loop goes on; "raise": an exception
\* no clause of install_local_mod catches).
install_local_archive(a, st, d, yes_to_all, no_to_all, reply, fault) ==
    LET target_path == a.stem
        exists == st[target_path] # NoDir
        Out(s, dd, res, y, n) ==
            [ st |-> s, db |-> dd, res |-> res, yes_to_all |-> y,
              no_to_all |-> n ]
    IN  IF exists /\ ~yes_to_all /\ no_to_all
          THEN Out(st, d, "skipped", yes_to_all, no_to_all)
        ELSE IF exists /\ ~yes_to_all /\ reply = "No"
          THEN Out(st, d, "skipped", yes_to_all, no_to_all)
        ELSE IF exists /\ ~yes_to_all /\ reply = "NoToAll"
          THEN Out(st, d, "skipped", yes_to_all, TRUE)
        ELSE
          LET y1 == yes_to_all \/ (exists /\ reply = "YesToAll")
              \* temp_dir is the directory TemporaryDirectory() just made
              ex == extract(TRUE, TRUE, a.ext, fault)
              c  == Extracted(a)
          IN  IF ex.kind = "error" THEN Out(st, d, "raise", y1, no_to_all)
              ELSE IF ex.kind # "ok" THEN Out(st, d, "failed", y1, no_to_all)
              ELSE IF rglob_modinfo(c) = {} THEN Out(st, d, "failed", y1, no_to_all)
              ELSE
                LET mod_root == Parent(FirstMatch(c))
                    metadata == parse_modinfo(c.doc)
                IN  IF metadata = None THEN Out(st, d, "failed", y1, no_to_all)
                    ELSE IF exists /\ fault = "rmtree"
                      THEN Out(st, d, "failed", y1, no_to_all)
                    ELSE IF fault = "move"
                      THEN Out([ st EXCEPT ![target_path] = NoDir ], d,
                               "failed", y1, no_to_all)
                    ELSE Out([ st EXCEPT ![target_path] = Subtree(c, mod_root) ],
                             add_installed_mod(d, metadata.mod_id, target_path),
                             "installed", y1, no_to_all)

MaxBatch == 2
Bump(b) == IF b THEN 1 ELSE 0

\* install_local_mod up to the loop: the file dialog returns n archives.
ImportStart(n) ==
    /\ imp.pc = "idle"
    /\ \A t \in Tasks : tasks[t].pc = "idle"
    /\ imp' = [ ImpIdle EXCEPT !.pc = "running", !.total = n ]
    /\ UNCHANGED <<storage, db, temp, tasks, last, pin, pout, aff, red, mods, fold,
                 rt, game, profile>>

\* One turn of the loop (lines 390-463), for the next archive of the
\* selection: the with statement's body, the removal of the temporary
\* directory as the with statement is left, and the outer except clause.
ImportArchive(a, reply, fault) ==
    /\ imp.pc = "running"
    /\ imp.idx < imp.total
    /\ (reply # "-") = Asked(a, storage, imp.yes_to_all, imp.no_to_all)
    /\ LET r == install_local_archive(a, storage, db, imp.yes_to_all,
                                      imp.no_to_all, reply, fault)
           raised == fault = "cleanup"
       IN  /\ storage' = r.st
           /\ db' = r.db
           /\ imp' = IF r.res = "raise" THEN ImpIdle
                     ELSE [ imp EXCEPT
                              !.idx = @ + 1,
                              !.failed = @ + Bump(r.res = "failed") + Bump(raised),
                              !.skipped = @ + Bump(r.res = "skipped"),
                              !.yes_to_all = r.yes_to_all,
                              !.no_to_all = r.no_to_all ]
           /\ last' = Outcome("import", a, r.res, fault, reply, raised, 0)
    /\ UNCHANGED <<temp, tasks, pin, pout, aff, red, mods, fold,
                 rt, game, profile>>

\* After the loop: the summary dialog (lines 465-470).
ImportSummary ==
    /\ imp.pc = "running"
    /\ imp.idx = imp.total
    /\ last' = Outcome("summary", None, "-", "none", "-", FALSE,
                       imp.total - imp.failed - imp.skipped)
    /\ imp' = [ imp EXCEPT !.pc = "idle" ]
    /\ UNCHANGED <<storage, db, temp, tasks, pin, pout, aff, red, mods, fold,
                 rt, game, profile>>

\* What the file dialog may return: per file name, mod m1 and mod m2 with
\* the metadata file in a subfolder, an archive without a metadata file and a
\* file of an unsupported format.
ImportArchives ==
    { Archive(s, ".zip", "sub", "x.modinfo", GoodDoc(m), 1) :
          s \in Stems, m \in ModIds }
    \cup { Archive(s, ".zip", "none", "x.modinfo", NoDoc, 1) : s \in Stems }
    \cup { Archive(s, ".tar", "sub", "x.modinfo", GoodDoc("m1"), 1) : s \in Stems }

\* Storage roots and tables that installs through _install_mod_from_file
\* leave: nothing, m1 from a.zip, and m1 from a.zip with m2 from b.zip.
Installed(stem, m) ==
    Subtree(Extracted(Archive(stem, ".zip", "sub", "x.modinfo", GoodDoc(m), 1)),
            <<"Mod">>)
ImportRoots ==
    { [ n \in DirNames |-> NoDir ],
      [ n \in DirNames |-> IF n = "a" THEN Installed("a", "m1") ELSE NoDir ],
      [ n \in DirNames |-> IF n = "a" THEN Installed("a", "m1")
                           ELSE IF n = "b" THEN Installed("b", "m2") ELSE NoDir ] }
RowsOf(st) ==
    [ m \in ModIds |->
        IF \E n \in Stems : st[n] # NoDir /\ st[n].doc.id = m
          THEN [ file_path |-> CHOOSE n \in Stems : st[n] # NoDir /\ st[n].doc.id = m,
                 enabled |-> FALSE ]
          ELSE NoRow ]

InitImport ==
    /\ storage \in ImportRoots
    /\ db = RowsOf(storage)
    /\ temp = {}
    /\ tasks = [ t \in Tasks |-> Idle ]
    /\ imp = ImpIdle
    /\ last = NoOp
    /\ pin = None
    /\ pout = None
    /\ aff = [ m \in ModIds |-> {} ]
    /\ red = {}
    /\ mods = [ n \in DirNames |-> NoMod ]
    /\ fold = FoldIdle
    /\ rt = RtIdle
    /\ game = GameInit
    /\ profile = NoProfile

NextImport ==
    \/ \E n \in 1..MaxBatch : ImportStart(n)
    \/ \E a \in ImportArchives, reply \in Replies \cup {"-"},
          f \in {"none", "cleanup"} : ImportArchive(a, reply, f)
    \/ ImportSummary

SpecImport == InitImport /\ [][NextImport]_vars

(***************************************************************************)
(* main.py: the mod list of the folder-backed application                  *)
(***************************************************************************)
\* self.path.glob("*.modinfo"): a metadata file in the mod folder itself
HasTopModinfo(c) == \E p \in c.files : Len(p) = 1 /\ IsModinfo(p[1])

\* A ModInfo that starts enabled.
NewModInfo_enabled(c, folder) ==
    [ enabled |-> TRUE, conflicts |-> {},
      metadata |-> load_metadata(HasTopModinfo(c), c.doc, folder) ]

\* ModInfo(mod_path) (modinfo.py __init__): disabled, without conflicts, the
\* metadata loaded from the folder.  conflicts maps the display name of
\* another mod to a file: a set of <<name, file>> with one pair per name.
NewModInfo(c, folder) ==
    [ enabled |-> FALSE, conflicts |-> {},
      metadata |-> load_metadata(HasTopModinfo(c), c.doc, folder) ]

\* refresh_mod_list: self.mods is cleared and rebuilt, one fresh ModInfo per
\* directory of the storage root.
refresh_mod_list(st) ==
    [ n \in DOMAIN st |-> IF st[n] = NoDir THEN NoMod ELSE NewModInfo(st[n], n) ]

Loaded(ms) == { n \in DOMAIN ms : ms[n] # NoMod }
\* enabled_mods of _update_conflicts
Enabled(ms) == { n \in Loaded(ms) : ms[n].enabled }
\* common_files of the pair
Common(ms, n, o) ==
    ms[n].metadata.affected_files \cap ms[o].metadata.affected_files
ConfPairs(ms) ==
    { p \in Enabled(ms) \X Enabled(ms) :
          p[1] # p[2] /\ Common(ms, p[1], p[2]) # {} }

\* `for file in common_files: mod.conflicts[name] = file` keeps the file the
\* iteration of the set yields last; the order a set iterates in is not
\* defined, and each pair builds a set of its own.  One choice per pair:
Picks(ms) ==
    { f \in [ ConfPairs(ms) -> UNION { ms[n].metadata.affected_files :
                                          n \in Enabled(ms) } ] :
          \A p \in ConfPairs(ms) : f[p] \in Common(ms, p[1], p[2]) }

\* An update that switches off the mods it reports.
update_conflicts_disabling(ms, pick) ==
    [ n \in DOMAIN ms |->
        IF ms[n] = NoMod THEN NoMod
        ELSE LET cs == { <<ms[p[2]].metadata.display_name, pick[p]>> :
                            p \in { q \in ConfPairs(ms) : q[1] = n } }
             IN  [ ms[n] EXCEPT !.conflicts = cs,
                                !.enabled = @ /\ cs = {} ] ]

\* An update that adds the new entries to the old ones.
update_conflicts_no_clear(ms, pick) ==
    [ n \in DOMAIN ms |->
        IF ms[n] = NoMod THEN NoMod
        ELSE [ ms[n] EXCEPT !.conflicts = @ \cup
                 { <<ms[p[2]].metadata.display_name, pick[p]>> :
                       p \in { q \in ConfPairs(ms) : q[1] = n } } ] ]

\* _update_conflicts: every mod's conflicts are cleared; an enabled mod gets
\* one entry per other enabled mod it shares a file with.
update_conflicts(ms, pick) ==
    [ n \in DOMAIN ms |->
        IF ms[n] = NoMod THEN NoMod
        ELSE [ ms[n] EXCEPT !.conflicts =
                 { <<ms[p[2]].metadata.display_name, pick[p]>> :
                       p \in { q \in ConfPairs(ms) : q[1] = n } } ] ]

\* Flags that are switched on for the folders of `on` and kept for the others.
SetEnabled_additive(ms, on) ==
    [ n \in DOMAIN ms |->
        IF ms[n] = NoMod THEN NoMod
        ELSE [ ms[n] EXCEPT !.enabled = @ \/ n \in on ] ]

\* the enabled flags set to `on` by folder name
SetEnabled(ms, on) ==
    [ n \in DOMAIN ms |->
        IF ms[n] = NoMod THEN NoMod ELSE [ ms[n] EXCEPT !.enabled = n \in on ] ]

\* _on_mod_toggle: the check box of row n changed.
ToggleMod(n) ==
    /\ mods[n] # NoMod
    /\ LET ms == [ mods EXCEPT ![n].enabled = ~@ ]
       IN  \E pick \in Picks(ms) : mods' = update_conflicts(ms, pick)
    /\ last' = Outcome("toggle", None, n, "none", "-", FALSE, 0)
    /\ UNCHANGED <<storage, db, temp, tasks, imp, pin, pout, aff, red, fold,
                 rt, game, profile>>

\* enable_all_mods
EnableAllMods ==
    /\ LET ms == SetEnabled(mods, Loaded(mods))
       IN  \E pick \in Picks(ms) : mods' = update_conflicts(ms, pick)
    /\ last' = Outcome("enable_all", None, "-", "none", "-", FALSE, 0)
    /\ UNCHANGED <<storage, db, temp, tasks, imp, pin, pout, aff, red, fold,
                 rt, game, profile>>

\* disable_all_mods
DisableAllMods ==
    /\ LET ms == SetEnabled(mods, {})
       IN  \E pick \in Picks(ms) : mods' = update_conflicts(ms, pick)
    /\ last' = Outcome("disable_all", None, "-", "none", "-", FALSE, 0)
    /\ UNCHANGED <<storage, db, temp, tasks, imp, pin, pout, aff, red, fold,
                 rt, game, profile>>

\* load_profile: a profile file exists (else the "No Profiles" dialog only)
\* and profile_data, what json.load reads from it, names the folders to
\* enable.
LoadProfile(profile_data) ==
    /\ profile.saved
    /\ profile_data = profile.data
    /\ LET ms == SetEnabled(mods, profile_data)
       IN  \E pick \in Picks(ms) : mods' = update_conflicts(ms, pick)
    /\ last' = Outcome("load_profile", None, "-", "none", "-", FALSE, 0)
    /\ UNCHANGED <<storage, db, temp, tasks, imp, pin, pout, aff, red, fold,
                 rt, game, profile>>

\* save_profile: the folder names of the enabled mods are written to the
\* profile file; with no mod enabled, the warning and no file.
SaveProfile ==
    /\ IF Enabled(mods) = {}
         THEN /\ UNCHANGED profile
              /\ last' = Outcome("save_profile", None, "warning", "none", "-",
                                 FALSE, 0)
         ELSE /\ profile' = [ saved |-> TRUE, data |-> Enabled(mods) ]
              /\ last' = Outcome("save_profile", None, "ok", "none", "-",
                                 FALSE, 0)
    /\ UNCHANGED <<storage, db, temp, tasks, imp, pin, pout, aff, red, mods, fold,
                   rt, game>>

\* The Refresh button.
RefreshModList ==
    /\ mods' = refresh_mod_list(storage)
    /\ last' = Outcome("refresh", None, "-", "none", "-", FALSE, 0)
    /\ UNCHANGED <<storage, db, temp, tasks, imp, pin, pout, aff, red, fold,
                 rt, game, profile>>

\* _uninstall_mod, confirmed: rmtree of the mod's folder, then the refresh;
\* when rmtree raises, the error dialog and no refresh.
UninstallMod(n, fault) ==
    /\ mods[n] # NoMod
    /\ storage[n] # NoDir
    /\ IF fault = "rmtree"
         THEN /\ UNCHANGED <<storage, mods,
                 rt, game, profile>>
              /\ last' = Outcome("uninstall", None, "error", fault, "-", FALSE, 0)
         ELSE /\ storage' = [ storage EXCEPT ![n] = NoDir ]
              /\ mods' = refresh_mod_list(storage')
              /\ last' = Outcome("uninstall", None, n, fault, "-", FALSE, 0)
    /\ UNCHANGED <<db, temp, tasks, imp, pin, pout, aff, red, fold,
                 rt, game, profile>>

(***************************************************************************)
(* main.py: install_mod of the folder-backed application                   *)
(***************************************************************************)
\* install_mod: the file dialog returns archive a; extract_mod_folder on the
\* storage root; the success dialog and the refresh of the list, or the error
\* dialog.
InstallMod(a, fault) ==
    /\ LET r == extract_mod_folder(a, storage, fault)
       IN  /\ storage' = r.st
           \* line 401: the list is refreshed after a successful install
           /\ mods' = IF r.res = "ok" THEN refresh_mod_list(r.st) ELSE mods
           /\ last' = Outcome("install_mod", a, r.res, fault, "-", FALSE, 0)
    /\ UNCHANGED <<db, temp, tasks, imp, pin, pout, aff, red, fold,
                 rt, game, profile>>

\* What the file dialog may return: per file name, mod m1 with x.modinfo at
\* the archive root, in a subfolder (in every version) and two levels down,
\* mod m1 with y.modinfo, an archive without a metadata file, and files of
\* an unsupported format and with an upper-case suffix.
LegacyArchives ==
    { Archive(s, ".zip", l, "x.modinfo", GoodDoc("m1"), 1) :
          s \in Stems, l \in {"root", "nested", "none"} }
    \cup { Archive(s, ".zip", "sub", "x.modinfo", GoodDoc("m1"), v) :
               s \in Stems, v \in 1..MaxVer }
    \cup { Archive("a", e, "sub", "y.modinfo", GoodDoc("m1"), 1) :
               e \in {".zip", ".ZIP", ".tar"} }
LegacyFaults == Faults \ {"cleanup"}

NextLegacy ==
    \E a \in LegacyArchives, f \in LegacyFaults : InstallMod(a, f)

SpecLegacy == Init /\ [][NextLegacy]_vars

(***************************************************************************)
(* main.py: installing, enabling and disabling mods in the mod list        *)
(***************************************************************************)
\* The Item texts a mod may declare, by action: UIScripts only, ImportFiles
\* only, UpdateDatabase and UpdateText only, UpdateDatabase and UIScripts.
ModFiles ==
    { [ k \in FILEACTION |-> IF k = "ui_scripts" THEN {"f1", "f2"} ELSE {} ],
      [ k \in FILEACTION |-> IF k = "import_files" THEN {"f1"} ELSE {} ],
      [ k \in FILEACTION |-> IF k = "update_db" THEN {"f1"}
                              ELSE IF k = "update_text" THEN {"f2"} ELSE {} ],
      [ k \in FILEACTION |-> IF k = "update_db" THEN {"f1"}
                              ELSE IF k = "ui_scripts" THEN {"f2"} ELSE {} ] }

\* Archives of mod m1 (x.modinfo) and of mod m2 (y.modinfo), the metadata
\* file at the archive root.
ModArchives ==
    { Archive("a", ".zip", "root", "x.modinfo",
              [ GoodDoc("m1") EXCEPT !.files = f ], 1) : f \in ModFiles }
    \cup { Archive("b", ".zip", "root", "y.modinfo",
                   [ GoodDoc("m2") EXCEPT !.files = f ], 1) : f \in ModFiles }

NextMods ==
    \/ \E a \in ModArchives : InstallMod(a, "none")
    \/ \E n \in DirNames : ToggleMod(n)
    \/ EnableAllMods
    \/ DisableAllMods
    \/ SaveProfile
    \/ \E profile_data \in SUBSET {"x", "y"} : LoadProfile(profile_data)
    \/ RefreshModList
    \/ \E n \in DirNames, f \in {"none", "rmtree"} : UninstallMod(n, f)

SpecMods == Init /\ [][NextMods]_vars

(***************************************************************************)
(* main.py: install_mod_folder                                             *)
(***************************************************************************)
\* sorted(mod_files): a.* comes before b.*
Before(s, t) == s = "a" /\ t = "b"

\* install_mod_folder up to the loop: the folder holds n archives with one of
\* the four suffixes of the glob (none: the "No Mods Found" dialog).
FolderStart(n) ==
    /\ fold.pc = "idle"
    /\ fold' = [ pc |-> "running", total |-> n, idx |-> 0, ok |-> 0,
                 failed |-> 0, done |-> {} ]
    /\ UNCHANGED <<storage, db, temp, tasks, imp, last, pin, pout, aff, red, mods,
                 rt, game, profile>>

\* One turn of the loop (lines 458-468) for the next archive of the folder.
\* extract_mod_folder returns the mod's name or raises; no statement of the
\* loop catches, so an exception leaves the loop for the except clause of
\* lines 481-484: the error dialog, without summary and without refresh.
FolderArchive(a, fault) ==
    /\ fold.pc = "running"
    /\ fold.idx < fold.total
    /\ \A s \in fold.done : Before(s, a.stem)
    /\ LET r == extract_mod_folder(a, storage, fault)
       IN  /\ storage' = r.st
           /\ IF r.res = "ok"
                THEN /\ fold' = [ fold EXCEPT !.idx = @ + 1, !.ok = @ + 1,
                                              !.done = @ \cup {a.stem} ]
                     /\ last' = Outcome("folder_archive", a, r.res, fault, "-",
                                        FALSE, 0)
                ELSE /\ fold' = FoldIdle
                     /\ last' = Outcome("folder_abort", a, r.res, fault, "-",
                                        TRUE, fold.total - fold.idx - 1)
    /\ UNCHANGED <<db, temp, tasks, imp, pin, pout, aff, red, mods,
                 rt, game, profile>>

\* After the loop (lines 470-479): the list is refreshed when an archive was
\* installed, then the result dialog.
FolderSummary ==
    /\ fold.pc = "running"
    /\ fold.idx = fold.total
    /\ mods' = IF fold.ok > 0 THEN refresh_mod_list(storage) ELSE mods
    /\ last' = Outcome("folder_summary", None, "-", "none", "-", FALSE, fold.ok)
    /\ fold' = FoldIdle
    /\ UNCHANGED <<storage, db, temp, tasks, imp, pin, pout, aff, red,
                 rt, game, profile>>

\* The archives a folder may hold: a.zip with mod m1 (x.modinfo at the root)
\* or without a metadata file, b.zip with mod m2 (y.modinfo) or without one.
FolderArchives ==
    { Archive("a", ".zip", l, "x.modinfo", GoodDoc("m1"), 1) : l \in {"root", "none"} }
    \cup { Archive("b", ".zip", l, "y.modinfo", GoodDoc("m2"), 1) :
               l \in {"root", "none"} }
FolderFaults == {"none", "extract_error", "move"}

NextFolder ==
    \/ \E n \in 1..Cardinality(Stems) : FolderStart(n)
    \/ \E a \in FolderArchives, f \in FolderFaults : FolderArchive(a, f)
    \/ FolderSummary

SpecFolder == Init /\ [][NextFolder]_vars

(***************************************************************************)
(* ui/installed_page.py on app/utilities/database.py                       *)
(***************************************************************************)
\* get_installed_mod: the row, with affected_files the set of the file names
\* of the mod's rows in the affected_files table.
get_installed_mod(d, af, m) ==
    IF d[m] = NoRow THEN None
    ELSE [ mod_id |-> m, file_path |-> d[m].file_path, enabled |-> d[m].enabled,
           affected_files |-> { r[1] : r \in af[m] } ]

\* The mod_ids of every row, enabled or not.
get_all_mods(d) == { m \in DOMAIN d : d[m] # NoRow }

\* get_all_enabled_mods: the mod_ids
get_all_enabled_mods(d) == { m \in DOMAIN d : d[m] # NoRow /\ d[m].enabled }

\* remove_installed_mod: the mod's rows of both tables
remove_installed_mod(d, af, m) ==
    [ db |-> [ d EXCEPT ![m] = NoRow ], aff |-> [ af EXCEPT ![m] = {} ] ]

\* set_mod_enabled / update_mod_enabled_state
set_mod_enabled(d, m, enabled) ==
    IF d[m] = NoRow THEN d ELSE [ d EXCEPT ![m].enabled = enabled ]

\* enable_all_mods, disable_all_mods: UPDATE installed_mods SET enabled = on
set_all_enabled(d, on) ==
    [ m \in DOMAIN d |-> IF d[m] = NoRow THEN NoRow
                          ELSE [ d[m] EXCEPT !.enabled = on ] ]

\* _check_mod_conflicts(mod): affected_files is the set get_installed_mod
\* built; a non-empty one is asked for .get('ui_scripts'), which a set does
\* not have (AttributeError); an empty one leaves mod_files empty, and an
\* empty mod_files overlaps with nothing.
check_mod_conflicts(d, af, m) ==
    LET others == get_all_enabled_mods(d) \ {m}
    IN  IF get_installed_mod(d, af, m).affected_files # {} THEN "AttributeError"
        ELSE IF \E o \in others : get_installed_mod(d, af, o).affected_files # {}
          THEN "AttributeError"
        ELSE "no conflict"

\* refresh: both tables are rebuilt from the rows; the rows of the enabled
\* table for which _check_mod_conflicts returns True are coloured.
refresh(d, af) ==
    { m \in get_all_enabled_mods(d) : check_mod_conflicts(d, af, m) = "conflict" }

\* The page is shown (main_window.py lines 101-102).
PageRefresh ==
    /\ red' = refresh(db, aff)
    /\ last' = Outcome("page_refresh", None, "-", "none", "-", FALSE, 0)
    /\ UNCHANGED <<storage, db, temp, tasks, imp, pin, pout, aff, mods, fold,
                 rt, game, profile>>

\* Context menu, Enable/Disable on the row of mod m (lines 477-479).
PageToggle(m) ==
    /\ db[m] # NoRow
    /\ db' = set_mod_enabled(db, m, ~db[m].enabled)
    /\ red' = refresh(db', aff)
    /\ last' = Outcome("page_toggle", None, m, "none", "-", FALSE, 0)
    /\ UNCHANGED <<storage, temp, tasks, imp, pin, pout, aff, mods, fold,
                 rt, game, profile>>

\* enable_all_mods of the page
PageEnableAll ==
    /\ db' = set_all_enabled(db, TRUE)
    /\ red' = refresh(db', aff)
    /\ last' = Outcome("page_enable_all", None, "-", "none", "-", FALSE, 0)
    /\ UNCHANGED <<storage, temp, tasks, imp, pin, pout, aff, mods, fold,
                 rt, game, profile>>

\* disable_all_mods of the page
PageDisableAll ==
    /\ db' = set_all_enabled(db, FALSE)
    /\ red' = refresh(db', aff)
    /\ last' = Outcome("page_disable_all", None, "-", "none", "-", FALSE, 0)
    /\ UNCHANGED <<storage, temp, tasks, imp, pin, pout, aff, mods, fold,
                 rt, game, profile>>

\* Context menu, Uninstall on the row of mod m, confirmed (lines 486-496).
PageUninstall(m) ==
    /\ db[m] # NoRow
    /\ LET r == remove_installed_mod(db, aff, m)
       IN  /\ db' = r.db
           /\ aff' = r.aff
           /\ red' = refresh(r.db, r.aff)
    /\ last' = Outcome("page_uninstall", None, m, "none", "-", FALSE, 0)
    /\ UNCHANGED <<storage, temp, tasks, imp, pin, pout, mods, fold,
                 rt, game, profile>>

\* options_page.py _uninstall_all_mods, confirmed: every entry of the storage
\* root is removed, then every row; when a removal raises, the error dialog
\* (here: the first removal, nothing is deleted).
UninstallAll(fault) ==
    /\ IF fault = "rmtree" /\ \E n \in DirNames : storage[n] # NoDir
         THEN /\ UNCHANGED <<storage, db, aff>>
              /\ last' = Outcome("uninstall_all", None, "error", fault, "-",
                                 FALSE, 0)
         ELSE /\ storage' = [ n \in DirNames |-> NoDir ]
              /\ db' = [ m \in ModIds |-> NoRow ]
              /\ aff' = [ m \in ModIds |-> {} ]
              /\ last' = Outcome("uninstall_all", None, "ok", "none", "-",
                                 FALSE, 0)
    /\ UNCHANGED <<temp, tasks, imp, pin, pout, red, mods, fold, rt, game, profile>>

\* deploy_mods of the page (lines 360-417), the game mods directory present.
\* reply: the answer to "Confirm Deploy".  After Yes the enabled rows are
\* read, every entry of the game mods directory is removed, and the
\* directory file_path of each enabled mod is copied to <game mods>/<mod_id>.
\* An OSError ends the deploy with the "Deploy Error" dialog: the first
\* removal raising (fault "rmtree"), or a copytree raising, because of fault
\* "copytree" or because file_path is not an existing directory; `done` are
\* the mods copied by then.  The legacy window's deploy_mods (main.py lines
\* 236-290) does the same with the enabled mods of its list.
PageDeploy(reply, fault, done) ==
    LET enabled == get_all_enabled_mods(db)
        missing == { m \in enabled : storage[db[m].file_path] = NoDir }
        copied(ms) == [ n \in GameNames |->
                          IF n \in ms THEN storage[db[n].file_path] ELSE NoDir ]
    IN
    /\ done \subseteq enabled \ missing
    /\ IF reply = "No"
         THEN /\ done = {} /\ fault = "none"
              /\ game' = game
              /\ last' = Outcome("page_deploy", None, "declined", "none", reply,
                                 FALSE, 0)
       ELSE IF fault = "rmtree"
         THEN /\ done = {}
              /\ \E n \in GameNames : game[n] # NoDir
              /\ game' = game
              /\ last' = Outcome("page_deploy", None, "error", fault, reply,
                                 FALSE, 0)
       ELSE IF fault = "copytree" \/ missing # {}
         THEN /\ done # enabled
              /\ game' = copied(done)
              /\ last' = Outcome("page_deploy", None, "error", fault, reply,
                                 FALSE, Cardinality(done))
       ELSE /\ done = enabled
            /\ game' = copied(enabled)
            /\ last' = Outcome("page_deploy", None, "ok", "none", reply,
                               FALSE, Cardinality(enabled))
    /\ UNCHANGED <<storage, db, temp, tasks, imp, pin, pout, aff, red, mods, fold,
                   rt, profile>>

\* What a download may deliver here: mod m1 as a.zip and mod m2 as b.zip, the
\* metadata file in a subfolder.
PageArchives ==
    { Archive("a", ".zip", "sub", "x.modinfo",
              [ GoodDoc("m1") EXCEPT !.files = f ], 1) : f \in ModFiles }
    \cup { Archive("b", ".zip", "sub", "y.modinfo",
                   [ GoodDoc("m2") EXCEPT !.files = f ], 1) : f \in ModFiles }

NextPage ==
    \/ DownloadClick(1)
    \/ \E st \in Stems : DownloadHeaders(1, st)
    \/ \E a \in PageArchives : DownloadFinish(1, a, "none", {})
    \/ PageRefresh
    \/ \E m \in ModIds : PageToggle(m)
    \/ PageEnableAll
    \/ PageDisableAll
    \/ \E m \in ModIds : PageUninstall(m)
    \/ \E f \in {"none", "rmtree"} : UninstallAll(f)

SpecPage == Init /\ [][NextPage]_vars

\* What a download may deliver here: mod m1 as a.zip, in each version, and
\* mod m2 as b.zip.
DeployArchives ==
    { Archive("a", ".zip", "sub", "x.modinfo", GoodDoc("m1"), v) : v \in 1..MaxVer }
    \cup { Archive("b", ".zip", "sub", "y.modinfo", GoodDoc("m2"), 1) }

\* The page with its Deploy button: mods are installed, enabled, disabled and
\* uninstalled, and deployed to the game.
NextDeploy ==
    \/ DownloadClick(1)
    \/ \E st \in Stems : DownloadHeaders(1, st)
    \/ \E a \in DeployArchives : DownloadFinish(1, a, "none", {})
    \/ \E m \in ModIds : PageToggle(m)
    \/ \E m \in ModIds : PageUninstall(m)
    \/ \E reply \in {"Yes", "No"}, fault \in {"none", "rmtree", "copytree"},
          done \in SUBSET ModIds : PageDeploy(reply, fault, done)

SpecDeploy == Init /\ [][NextDeploy]_vars

(***************************************************************************)
(* app/ui/get_mods_page.py: refresh_table                                  *)
(***************************************************************************)
MaxPages == 2       \* pages the provider reports at most
MaxRows == 2        \* mods on a page at most

\* The finally clause (lines 282-286).
refresh_table_finally(r) == [ r EXCEPT !.is_loading = FALSE, !.pc = "idle" ]

\* A refresh that starts whether or not another one is running.
refresh_table_unguarded(r) ==
    LET r1 == [ r EXCEPT !.is_loading = TRUE, !.rows = 0, !.current_page = 1 ]
    IN  IF 1 <= r1.total_pages THEN [ r1 EXCEPT !.pc = "awaiting" ]
        ELSE refresh_table_finally(r1)

\* refresh_table up to its first await (lines 257-273): the guard, the flag,
\* the provider check, the table cleared, then the first search_mods call
\* or, with no page to fetch, the finally clause at once.
refresh_table(r) ==
    IF r.is_loading THEN r
    ELSE IF r.provider = "" THEN [ r EXCEPT !.is_loading = TRUE ]
    ELSE
      LET r1 == [ r EXCEPT !.is_loading = TRUE, !.rows = 0, !.current_page = 1 ]
      IN  IF 1 <= r1.total_pages THEN [ r1 EXCEPT !.pc = "awaiting" ]
          ELSE refresh_table_finally(r1)

\* The Refresh button is clicked, or the page is shown with an empty table.
RefreshTable ==
    /\ rt' = refresh_table(rt)
    /\ last' = Outcome("refresh_table", None,
                       IF rt.is_loading THEN "returned" ELSE "started",
                       "none", "-", FALSE, 0)
    /\ UNCHANGED <<storage, db, temp, tasks, imp, pin, pout, aff, red, mods, fold,
                   game, profile>>

\* One turn of the loop (lines 272-277): search_mods returns the page's mods
\* and the number of pages (it catches every exception itself), and the
\* mods are added to the table.  k rows were added when the turn ends; how:
\*   "ok"     every mod of the page was added
\*   "caught" _add_mod_to_table raised a ParserError or RuntimeError
\*   "raised" it raised something else, which leaves the coroutine
\* The finally clause runs when the loop ends, in each of the three ways.
RefreshPage(k, total_pages, how) ==
    /\ rt.pc = "awaiting"
    /\ LET r1 == [ rt EXCEPT !.rows = @ + k, !.total_pages = total_pages ]
           r2 == [ r1 EXCEPT !.current_page = @ + 1 ]
       IN  rt' = IF how # "ok" THEN refresh_table_finally(r1)
                 ELSE IF r2.current_page <= r2.total_pages THEN r2
                 ELSE refresh_table_finally(r2)
    /\ last' = Outcome("refresh_page", None, how, "none", "-", how = "raised", k)
    /\ UNCHANGED <<storage, db, temp, tasks, imp, pin, pout, aff, red, mods, fold,
                   game, profile>>

\* _on_provider_changed (lines 243-252): the combo box offers the keys of
\* self.providers, so the KeyError branch is not taken; a new provider
\* object is made and refresh_table is called.
Providers == {"CivFanatics"}

ProviderChanged(provider_name) ==
    /\ rt' = refresh_table([ rt EXCEPT !.provider = provider_name ])
    /\ last' = Outcome("provider_changed", None,
                       IF rt.is_loading THEN "returned" ELSE "started",
                       "none", "-", FALSE, 0)
    /\ UNCHANGED <<storage, db, temp, tasks, imp, pin, pout, aff, red, mods, fold,
                   game, profile>>

NextRefresh ==
    \/ RefreshTable
    \/ \E provider_name \in Providers : ProviderChanged(provider_name)
    \/ \E k \in 0..MaxRows, tp \in 0..MaxPages, how \in {"ok", "caught", "raised"} :
           RefreshPage(k, tp, how)

SpecRefresh == Init /\ [][NextRefresh]_vars

(***************************************************************************)
(* The archive front ends as functions of their input.                     *)
(***************************************************************************)
ExtractInputs ==
    [ fileExists : BOOLEAN, targetExists : BOOLEAN, suffix : Suffixes,
      fault : {"none", "extract_oserror", "extract_error"} ]

InitExtract ==
    /\ storage = [ n \in DirNames |-> NoDir ]
    /\ db = [ m \in ModIds |-> NoRow ]
    /\ temp = {}
    /\ tasks = [ t \in Tasks |-> Idle ]
    /\ imp = ImpIdle
    /\ last = NoOp
    /\ pin \in ExtractInputs
    /\ pout = None
    /\ aff = [ m \in ModIds |-> {} ]
    /\ red = {}
    /\ mods = [ n \in DirNames |-> NoMod ]
    /\ fold = FoldIdle
    /\ rt = RtIdle
    /\ game = GameInit
    /\ profile = NoProfile

CallExtract ==
    /\ pout' = [ op  |-> "extract",
                 res |-> extract(pin.fileExists, pin.targetExists, pin.suffix,
                                 pin.fault) ]
    /\ UNCHANGED <<storage, db, temp, tasks, imp, last, pin, aff, red, mods, fold,
                 rt, game, profile>>

CallGetArchiveType ==
    /\ pout' = [ op |-> "get_archive_type", res |-> get_archive_type(pin.suffix) ]
    /\ UNCHANGED <<storage, db, temp, tasks, imp, last, pin, aff, red, mods, fold,
                 rt, game, profile>>

NextExtract == CallExtract \/ CallGetArchiveType

SpecExtract == InitExtract /\ [][NextExtract]_vars

(***************************************************************************)
(* The metadata parsers as functions of a document.                        *)
(***************************************************************************)
InitParse ==
    /\ storage = [ n \in DirNames |-> NoDir ]
    /\ db = [ m \in ModIds |-> NoRow ]
    /\ temp = {}
    /\ tasks = [ t \in Tasks |-> Idle ]
    /\ imp = ImpIdle
    /\ last = NoOp
    /\ pin \in DocSpace
    /\ pout = None
    /\ aff = [ m \in ModIds |-> {} ]
    /\ red = {}
    /\ mods = [ n \in DirNames |-> NoMod ]
    /\ fold = FoldIdle
    /\ rt = RtIdle
    /\ game = GameInit
    /\ profile = NoProfile

CallParseModinfo ==
    /\ pout' = [ op |-> "parse_modinfo", res |-> parse_modinfo(pin) ]
    /\ UNCHANGED <<storage, db, temp, tasks, imp, last, pin, aff, red, mods, fold,
                 rt, game, profile>>

\* ModInfo(path) on a folder named "folder" that holds the document
CallLoadMetadata ==
    /\ pout' = [ op |-> "load_metadata", res |-> load_metadata(TRUE, pin, "folder") ]
    /\ UNCHANGED <<storage, db, temp, tasks, imp, last, pin, aff, red, mods, fold,
                 rt, game, profile>>

NextParse == CallParseModinfo \/ CallLoadMetadata

SpecParse == InitParse /\ [][NextParse]_vars

(***************************************************************************)
(* Properties                                                              *)
(***************************************************************************)
\* an operation `op` has just completed
Done(op) == last'.tick # last.tick /\ last'.op = op
\* directory content c is an installed mod with identity id
HoldsMod(c, id) == c # NoDir /\ c.doc # NoDoc /\ c.doc.id = id
\* archive a: a supported format, a parseable metadata file in one subfolder
ValidSub(a) ==
    a.ext \in extractors /\ a.layout = "sub" /\ parse_modinfo(a.doc) # None
\* the content of the directory that directly holds a's metadata file
ModRoot(a) == Subtree(Extracted(a), Parent(FirstMatch(Extracted(a))))

\* C1: when install_local_mod has processed, without an I/O fault, an
\* existing archive of a supported format with a parseable metadata file in
\* one subfolder and no directory of its name in the storage root, the
\* directory is in the storage root with the mod-root contents, the row of
\* its mod_id is in the table, and the archive counts as installed.
C1_ValidArchiveInstalls ==
    [][ ( /\ Done("import")
          /\ last'.fault = "none"
          /\ ValidSub(last'.a)
          /\ storage[last'.a.stem] = NoDir )
        => ( /\ last'.res = "installed"
             /\ storage'[last'.a.stem] = ModRoot(last'.a)
             /\ db'[last'.a.doc.id] # NoRow ) ]_vars

\* C2: when _download_online_mod ends, with no I/O fault anywhere, the
\* shared temp path holds nothing but the files of the downloads still
\* running.
C2_TempCleanOnExit ==
    [][ Done("download")
        => temp' \subseteq { File(tasks'[u].stem) :
                               u \in { v \in Tasks : tasks'[v].pc = "receiving" } }
      ]_vars

\* C3: when extract_mod_folder raises after its scratch directory was made,
\* for a reason other than an interrupted delete of the old directory, the
\* scratch directory is gone and the storage root holds no partially moved
\* directory that was not there before.
C3_NoPartialStateOnFailure ==
    [][ ( /\ Done("install_mod")
          /\ last'.res = "error"
          /\ last'.fault # "rmtree_partial" )
        => ( /\ storage'[ScratchName(last'.a.stem)] = NoDir
             /\ \A n \in DirNames :
                    IsPartial(storage'[n]) => IsPartial(storage[n]) ) ]_vars

\* C4: after a successful install of an archive, exactly one directory of
\* the storage root holds the mod of its mod_id, and that directory holds the
\* archive's mod-root contents.
C4_OneDirectoryPerMod ==
    (last.op = "download" /\ last.res = "installed")
    => /\ Cardinality({ n \in DirNames :
                          HoldsMod(storage[n], last.a.doc.id) }) = 1
       /\ \A n \in DirNames :
            HoldsMod(storage[n], last.a.doc.id) => storage[n] = ModRoot(last.a)

\* C5: when the overwrite question is answered No or NoToAll, or is not put
\* because NoToAll was answered before, the archive is skipped and the
\* directories of the storage root and the rows of the table stay as they
\* were.
C5_DeclinedOverwriteTouchesNothing ==
    [][ ( /\ Done("import")
          /\ \/ last'.reply \in {"No", "NoToAll"}
             \/ /\ storage[last'.a.stem] # NoDir
                /\ imp.no_to_all /\ ~imp.yes_to_all )
        => ( /\ last'.res = "skipped"
             /\ storage' = storage
             /\ db' = db ) ]_vars

\* C5 witness: No was answered for an archive whose mod_id is the one of the
\* directory in its place, and the archive was skipped.
C5_Witness ==
    /\ last.op = "import"
    /\ last.reply = "No"
    /\ last.res = "skipped"
    /\ last.a.doc # NoDoc
    /\ HoldsMod(storage[last.a.stem], last.a.doc.id)
    /\ db[last.a.doc.id] # NoRow

\* an installed directory that came from an archive with its metadata file
\* at the archive root
FromRoot(c) ==
    /\ c # NoDir
    /\ <<"readme.txt">> \in c.files
    /\ \E m \in ModinfoNames : <<m>> \in c.files

\* C6: identical archive contents with the metadata file at the archive
\* root are installed under one directory name, whatever the archives are
\* called.
C6_NameFromIdentityOnly ==
    \A n1, n2 \in DirNames :
        (FromRoot(storage[n1]) /\ storage[n1] = storage[n2]) => n1 = n2

\* C7: after extract_mod_folder has installed an archive whose metadata file
\* sits in a subfolder, at any depth, the installed directory holds exactly
\* the contents of the directory that directly holds the metadata file.
C7_OnlyTheModRootIsInstalled ==
    ( /\ last.op = "install_mod"
      /\ last.res = "ok"
      /\ last.a.layout \in {"sub", "nested"} )
    => storage[ModinfoStem(last.a.mfile)] = ModRoot(last.a)

\* C8: extract() on an existing file whose suffix is none of .zip, .7z, .rar,
\* .r00 reports the unsupported format and has created no directory.
C8_UnsupportedBeforeAnyDirectory ==
    ( /\ pout # None
      /\ pout.op = "extract"
      /\ pin.fileExists
      /\ pin.suffix \notin extractors )
    => (pout.res.kind = "unsupported" /\ ~pout.res.made)

\* C9: an install of an archive whose contents hold no .modinfo file fails,
\* and the directories of the storage root and the rows of the table stay as
\* they were.
C9_NoMetadataRejected ==
    [][ ( /\ \/ Done("download") \/ Done("import") \/ Done("install_mod")
          /\ last'.a # None
          /\ last'.a.layout = "none" )
        => ( /\ last'.res \notin {"installed", "ok"}
             /\ storage' = storage
             /\ db' = db ) ]_vars

\* C9 witness: a downloaded archive without a metadata file was rejected
\* while a mod was installed.
C9_Witness ==
    /\ last.op = "download"
    /\ last.a # None
    /\ last.a.layout = "none"
    /\ last.fault = "none"
    /\ last.res = "RuntimeError"
    /\ \E n \in Stems : HoldsMod(storage[n], "m1")

\* C10: both parsers fail, with no descriptor, on a document whose root has
\* no id attribute, or that has no Properties block, or whose Properties
\* block has no Name child; a descriptor has the id the root declares.
C10_NoDescriptorWithoutIdOrName ==
    pout # None =>
      LET missing == pin.id = NoAttr \/ ~pin.props \/ pin.name = NoElem
      IN  /\ pout.op = "parse_modinfo" =>
                /\ missing => pout.res = None
                /\ pout.res # None =>
                       pout.res.mod_id # NoAttr /\ pout.res.mod_id = pin.id
          /\ pout.op = "load_metadata" =>
                /\ missing => pout.res = BrokenMetadata("folder")
                /\ pout.res # BrokenMetadata("folder") =>
                       pout.res.id # NoAttr /\ pout.res.id = pin.id

\* C10 witness: parse_modinfo has refused a document that lacks nothing but
\* the root's id attribute.
C10_Witness ==
    /\ pout # None
    /\ pout.op = "parse_modinfo"
    /\ pin.mod /\ pin.props /\ pin.name # NoElem
    /\ pin.id = NoAttr
    /\ pout.res = None

\* the document declares no item in any of the four action buckets
NoEffect(doc) == \A k \in FILEACTION : doc.files[k] = {}

\* C11: neither parser returns a descriptor for a document that declares no
\* item in any of the four action buckets.
C11_NoEffectFailsToParse ==
    (pout # None /\ NoEffect(pin))
    => /\ pout.op = "parse_modinfo" => pout.res = None
       /\ pout.op = "load_metadata" => pout.res = BrokenMetadata("folder")

\* C12: both parsers return a descriptor for a document with a Mod root that
\* has an id, a Properties block with a Name and at least one affected file,
\* whichever of version, Authors, AffectsSavedGames and Dependencies it
\* lacks.
C12_OptionalElementsNeverFail ==
    ( /\ pout # None
      /\ pin.mod /\ pin.id \in ModIds /\ pin.props /\ pin.name # NoElem
      /\ ~NoEffect(pin) )
    => /\ pout.op = "parse_modinfo" => pout.res # None
       /\ pout.op = "load_metadata" => pout.res # BrokenMetadata("folder")

\* C13: the dependencies of the descriptor parse_modinfo returns are the ids
\* of the Mod entries of the document's Dependencies block that are in
\* neither BASE_GAME_MODS nor DLC_MODS.
C13_DependenciesAreTheDeclaredThirdParty ==
    (pout # None /\ pout.op = "parse_modinfo" /\ pout.res # None)
    => pout.res.dependencies = pin.deps \ (BASE_GAME_MODS \cup DLC_MODS)

\* the UIScripts and ImportFiles paths the installed metadata of mod m declares
Declared(m) ==
    IF db[m] = NoRow THEN {}
    ELSE LET c == storage[db[m].file_path]
         IN  IF c = NoDir THEN {}
             ELSE IF c.doc = NoDoc THEN {}
             ELSE LET md == parse_modinfo(c.doc)
                  IN  IF md = None THEN {}
                      ELSE IF md.mod_id # m THEN {}
                      ELSE md.affected_files["ui_scripts"]
                             \cup md.affected_files["import_files"]

PageOps ==
    {"page_refresh", "page_toggle", "page_enable_all", "page_disable_all",
     "page_uninstall"}

\* C14: when the installed page has drawn its tables, two enabled mods whose
\* installed metadata declare a common UIScripts or ImportFiles path are both
\* shown as conflicting.
C14_OverlapIsReportedForBoth ==
    last.op \in PageOps
    => \A m \in ModIds, o \in ModIds :
         ( /\ m # o
           /\ m \in get_all_enabled_mods(db)
           /\ o \in get_all_enabled_mods(db)
           /\ Declared(m) \cap Declared(o) # {} )
         => m \in red /\ o \in red

\* the display name the report of another mod lists mod n under
NameOf(n) == mods[n].metadata.display_name

\* C15: in the mod list, whenever the report of mod n lists mod o over file
\* f, the report of o lists n over the same file f.
C15_ReportIsSymmetricPerFile ==
    \A n \in Loaded(mods), o \in Loaded(mods) :
        \A e \in mods[n].conflicts :
            (n # o /\ e[1] = NameOf(o)) => <<NameOf(n), e[2]>> \in mods[o].conflicts

\* the ModInfo of folder n is what the folder's metadata file gives
InSync(n) ==
    /\ storage[n] # NoDir
    /\ mods[n] # NoMod
    /\ mods[n].metadata =
           load_metadata(HasTopModinfo(storage[n]), storage[n].doc, n)

\* the Item texts the metadata file of folder n declares under the actions ks
DeclaredIn(n, ks) ==
    IF storage[n] = NoDir THEN {}
    ELSE IF storage[n].doc = NoDoc THEN {}
    ELSE UNION { storage[n].doc.files[k] : k \in ks }

\* C16: two mods of the list whose metadata files share no UIScripts or
\* ImportFiles path have no conflict entry for each other, whatever their
\* UpdateDatabase and UpdateText items are.
C16_OnlyScriptsAndImportsConflict ==
    \A n \in DirNames, o \in DirNames :
        ( /\ n # o /\ InSync(n) /\ InSync(o)
          /\ DeclaredIn(n, {"ui_scripts", "import_files"})
               \cap DeclaredIn(o, {"ui_scripts", "import_files"}) = {} )
        => \A e \in mods[n].conflicts : e[1] # NameOf(o)

C16_Witness ==
    /\ last.op = "enable_all"
    /\ InSync("x") /\ InSync("y")
    /\ mods["x"].enabled /\ mods["y"].enabled
    /\ DeclaredIn("x", {"update_db", "update_text"})
         \cap DeclaredIn("y", {"update_db", "update_text"}) # {}
    /\ DeclaredIn("x", {"ui_scripts", "import_files"})
         \cap DeclaredIn("y", {"ui_scripts", "import_files"}) = {}
    /\ mods["x"].conflicts = {} /\ mods["y"].conflicts = {}

\* C17: when disable_all_mods has run, the conflict report of every mod of
\* the list is empty.
C17_DisableAllClearsEveryReport ==
    [][ Done("disable_all")
        => \A n \in Loaded(mods') :
               ~mods'[n].enabled /\ mods'[n].conflicts = {} ]_vars

C17_Witness ==
    /\ last.op = "disable_all"
    /\ {"x", "y"} \subseteq Loaded(mods)
    /\ Common(mods, "x", "y") # {}
    /\ mods["x"].conflicts = {} /\ mods["y"].conflicts = {}

\* C18: in every state of the mod list, a mod's report names exactly the
\* other enabled mods it shares an affected file with when it is enabled
\* itself, each over a file they share, and nothing when it is disabled.
C18_ReportMatchesEnabledSet ==
    \A n \in Loaded(mods) :
        /\ { e[1] : e \in mods[n].conflicts } =
              IF mods[n].enabled
                THEN { NameOf(o) :
                         o \in { q \in Enabled(mods) \ {n} :
                                    Common(mods, n, q) # {} } }
                ELSE {}
        /\ \A e \in mods[n].conflicts :
              \E o \in Enabled(mods) \ {n} :
                  e[1] = NameOf(o) /\ e[2] \in Common(mods, n, o)

C18_Witness ==
    /\ last.op = "toggle" /\ last.res = "y"
    /\ {"x", "y"} \subseteq Loaded(mods)
    /\ mods["x"].enabled /\ ~mods["y"].enabled
    /\ Common(mods, "x", "y") # {}
    /\ mods["x"].conflicts = {}

\* C19: a batch of install_mod_folder ends only with its summary, after every
\* archive of the folder was processed, whatever failed on the way.
C19_FailureNeverAbortsTheBatch ==
    [][ (fold.pc = "running" /\ fold'.pc = "idle")
        => (last'.op = "folder_summary" /\ fold.idx = fold.total) ]_vars

\* C20: the summary of install_local_mod counts no archive twice: the
\* succeeded count is not negative and failed + skipped is at most the number
\* of archives.
C20_SummaryCountsEachArchiveOnce ==
    last.op = "summary"
    => /\ last.n >= 0
       /\ imp.failed + imp.skipped <= imp.total

\* C21: when a confirmed uninstall has completed without error, the
\* directory the mod was installed in is no longer in the storage root
\* (context menu of the installed page, Uninstall All).
C21_UninstallRemovesTheDirectory ==
    [][ /\ Done("page_uninstall")
           => storage'[db[last'.res].file_path] = NoDir
        /\ (Done("uninstall_all") /\ last'.res = "ok")
           => \A n \in DirNames : storage'[n] = NoDir ]_vars

\* the install operations in flight: the _download_online_mod coroutines
\* between their start and their finally clause, and a running batch import
InFlight ==
    Cardinality({ t \in Tasks : tasks[t].pc # "idle" })
        + (IF imp.pc = "idle" THEN 0 ELSE 1)

\* C22: at no time are two install operations in flight together.
C22_InstallsAreSerialized == InFlight <= 1

ConflictOps == {"toggle", "enable_all", "disable_all", "load_profile"}

\* the enabled flag the handler named by `last'` gave mod n before it called
\* _update_conflicts
FlagSet(n) ==
    CASE last'.op = "toggle"       -> IF n = last'.res THEN ~mods[n].enabled
                                      ELSE mods[n].enabled
      [] last'.op = "enable_all"   -> TRUE
      [] last'.op = "disable_all"  -> FALSE
      [] last'.op = "load_profile" -> n \in profile.data

\* C23: a handler that ends in _update_conflicts leaves the storage root and
\* the tables alone, keeps the mods of the list and their metadata, and
\* leaves every enabled flag as the handler itself set it: computing the
\* conflicts changes the conflict reports only.
C23_ConflictCheckMutatesNothing ==
    [][ (last'.tick # last.tick /\ last'.op \in ConflictOps)
        => /\ storage' = storage /\ db' = db /\ aff' = aff
           /\ Loaded(mods') = Loaded(mods)
           /\ \A n \in Loaded(mods) :
                 /\ mods'[n].metadata = mods[n].metadata
                 /\ mods'[n].enabled = FlagSet(n) ]_vars

C23_Witness ==
    /\ last.op = "toggle" /\ last.res = "y"
    /\ mods["x"] # NoMod /\ mods["y"] # NoMod
    /\ mods["x"].enabled /\ mods["y"].enabled
    /\ mods["x"].conflicts # {} /\ mods["y"].conflicts # {}

\* C30: when load_profile has run, the enabled mods are the mods of the list
\* the profile names (the saved set itself when all of them are still in
\* the list), and every conflict report matches that enabled set.
C30_LoadRestoresTheSavedSet ==
    last.op = "load_profile"
    => /\ Enabled(mods) = profile.data \cap Loaded(mods)
       /\ profile.data \subseteq Loaded(mods) => Enabled(mods) = profile.data
       /\ \A n \in Loaded(mods) :
             { e[1] : e \in mods[n].conflicts } =
                 { mods[o].metadata.display_name :
                     o \in { q \in (profile.data \cap Loaded(mods)) \ {n} :
                                n \in profile.data /\ Common(mods, n, q) # {} } }

C30_Witness ==
    /\ last.op = "load_profile"
    /\ profile.data = {"x"}
    /\ {"x", "y"} \subseteq Loaded(mods)
    /\ Common(mods, "x", "y") # {}
    /\ Enabled(mods) = {"x"}
    /\ mods["x"].conflicts = {} /\ mods["y"].conflicts = {}

\* no install is in flight
Quiet == InFlight = 0

\* C24: between installs, every row's file_path is a directory of the
\* storage root that holds that mod, and every directory of the storage root
\* has exactly one row pointing to it.
C24_TableAndStorageAgree ==
    Quiet
    => /\ \A m \in ModIds :
             db[m] # NoRow => HoldsMod(storage[db[m].file_path], m)
       /\ \A n \in DirNames :
             storage[n] # NoDir
             => Cardinality({ m \in ModIds :
                                db[m] # NoRow /\ db[m].file_path = n }) = 1

\* C25: when the install of a downloaded archive over an existing directory
\* has failed, that directory and the rows pointing to it are as they were
\* before the attempt.
C25_FailedReinstallKeepsTheOldMod ==
    [][ ( /\ Done("download")
          /\ last'.a # None
          /\ last'.res # "installed"
          /\ storage[last'.a.stem] # NoDir )
        => /\ storage'[last'.a.stem] = storage[last'.a.stem]
           /\ \A m \in ModIds :
                 (db[m] # NoRow /\ db[m].file_path = last'.a.stem)
                 => db'[m] = db[m] ]_vars

\* C26: in a batch import the two flags are never both set; after NoToAll an
\* archive whose target exists is skipped without a prompt and the target is
\* left alone; after YesToAll no archive prompts and an existing target is
\* replaced; an archive whose target does not exist is installed without a
\* prompt (replaced, installed: for a valid archive and without I/O fault).
C26_OverwriteAnswerIsSticky ==
    [][ Done("import")
        => LET a == last'.a
               exists == storage[a.stem] # NoDir
               valid == ValidSub(a) /\ last'.fault = "none"
               installed == /\ last'.res = "installed"
                            /\ storage'[a.stem] = ModRoot(a)
           IN  /\ ~(imp'.yes_to_all /\ imp'.no_to_all)
               /\ (imp.no_to_all /\ exists)
                  => /\ last'.reply = "-" /\ last'.res = "skipped"
                     /\ storage' = storage /\ db' = db
               /\ imp.yes_to_all
                  => /\ last'.reply = "-"
                     /\ (exists /\ valid) => installed
               /\ ~exists
                  => /\ last'.reply = "-"
                     /\ valid => installed ]_vars

\* C27: when an install has added the row of a mod, that row is disabled and
\* points to the new directory, and the rows of all other mods are as before.
C27_InstalledModIsDisabled ==
    [][ (Done("download") /\ last'.res = "installed")
        => LET m == last'.a.doc.id
           IN  /\ db'[m] # NoRow
               /\ ~db'[m].enabled
               /\ db'[m].file_path = last'.a.stem
               /\ \A o \in ModIds \ {m} : db'[o] = db[o] ]_vars

C27_Witness ==
    /\ last.op = "download" /\ last.res = "installed"
    /\ last.a.doc.id = "m1"
    /\ db["m1"] # NoRow /\ ~db["m1"].enabled
    /\ db["m2"] # NoRow /\ db["m2"].enabled

\* C28: a call of refresh_table made while a refresh is running (from the
\* button or from a provider change) returns without touching the table or
\* the paging state, and whenever no refresh is running is_loading is false,
\* however the running one ended: the loop ran out of pages, an exception
\* was caught, an exception left the coroutine, or there was no page to
\* fetch.  The return for a missing provider comes before the try block,
\* but current_provider is a CivFanaticsProvider object from __init__ on
\* and is never falsy, so that return is not taken.
C28_RefreshGuardIsReleased ==
    [][ /\ ((Done("refresh_table") \/ Done("provider_changed")) /\ rt.pc = "awaiting")
             => rt' = rt
        /\ rt'.pc = "idle" => ~rt'.is_loading ]_vars

C28_Witness ==
    /\ last.op = "refresh_table" /\ last.res = "returned"
    /\ rt.pc = "awaiting" /\ rt.is_loading
    /\ rt.rows > 0

\* C29: after a page deploy that ends with "Deploy Complete", the game mods
\* directory holds exactly one directory per enabled mod, a copy of the
\* mod's installed directory, and nothing else: what was there before is
\* gone and no disabled mod is copied.
C29_DeployMirrorsTheEnabledMods ==
    [][ (Done("page_deploy") /\ last'.res = "ok") =>
          \A n \in GameNames :
             IF n \in ModIds /\ db[n] # NoRow /\ db[n].enabled
               THEN game'[n] = storage[db[n].file_path] /\ game'[n] # NoDir
               ELSE game'[n] = NoDir ]_vars

C29_Witness ==
    /\ last.op = "page_deploy" /\ last.res = "ok"
    /\ game["old"] = NoDir
    /\ \E m, o \in ModIds :
          /\ db[m] # NoRow /\ db[m].enabled /\ game[m] # NoDir
          /\ db[o] # NoRow /\ ~db[o].enabled /\ game[o] = NoDir
====
